---- MODULE Spec2Model ----
(***************************************************************************)
(* Inventory service (src/main.js; src/unnamed/part_000 is the same code   *)
(* with the photo directory taken from --cache and no created_at field).   *)
(*                                                                         *)
(* State: the record file inventory.json, the photo directory, and the     *)
(* requests in flight.  Every `await` of a handler is a point where        *)
(* another request may run, so each handler is cut into one action per     *)
(* awaited operation; the synchronous code between two awaits is atomic    *)
(* (one JavaScript thread).                                                *)
(*                                                                         *)
(* Encodings.  JS null photo_filename is Null (0); uploaded file names are *)
(* 1, 2, ... (Date.now() + "-" + random + ext, taken to be fresh).  A      *)
(* string that is only stored and compared is a TLA+ string; a description *)
(* is a sequence of string tokens so that `+` is \o ("" is <<>>).  An      *)
(* optional body field is <<>> (undefined) or <<v>>.  findIndex's -1 is 0  *)
(* (TLA+ sequences start at 1).  created_at is a timestamp no handler      *)
(* reads and is left out of the records.                                   *)
(***************************************************************************)
EXTENDS Integers, Sequences, FiniteSets, TLC

\* ---------------------------------------------------------------- bounds
\* Requests the clients issue in one behaviour.
MaxReqs == 3

\* The request slots: two requests may be in flight at the same time.
Procs == {"r1", "r2"}

\* ------------------------------------------------------- program constants
\* upload limits.fileSize, in bytes
FileSizeLimit == 5 * 1024 * 1024
\* JS null
Null == 0
\* parseInt's NaN: equal to no stored id (ids are >= 1, inputs carry no sign)
NaN == -1

\* ------------------------------------------------------------ input domains
NameInputs == {"", "a"}
DescInputs == {<<>>, <<"d">>}
OptName == {<<>>} \cup {<<n>> : n \in NameInputs}
OptDesc == {<<>>} \cup {<<d>> : d \in DescInputs}
\* path / body ids, as sequences of characters
IdStrings == {<<"1">>, <<"2">>, <<"0", "1">>, <<"2", "x">>, <<"x">>}
\* body.id of POST /search: undefined, "" or a string
SearchIds == {<<>>} \cup {<<s>> : s \in IdStrings \cup {<<>>}}
HasPhotoInputs == {"undefined", "true", "false"}
\* the multipart "photo" part: none, or a file with a declared type and a size
Mimetypes == {<<"image", "png">>, <<"text", "plain">>}
UploadSizes == {1, FileSizeLimit, FileSizeLimit + 1}
NoUpload == [present |-> FALSE, mimetype |-> <<"", "">>, size |-> 0]
Uploads == {NoUpload} \cup
           {[present |-> TRUE, mimetype |-> m, size |-> s] : m \in Mimetypes, s \in UploadSizes}

\* ------------------------------------------------------------- pure helpers
Digit(c) == CASE c = "0" -> 0 [] c = "1" -> 1 [] c = "2" -> 2 [] c = "3" -> 3
              [] c = "4" -> 4 [] c = "5" -> 5 [] c = "6" -> 6 [] c = "7" -> 7
              [] c = "8" -> 8 [] c = "9" -> 9 [] OTHER -> NaN

RECURSIVE LeadingDigits(_, _)
\* value of the longest prefix of digits of s, acc being the value so far
LeadingDigits(s, acc) ==
  IF s = <<>> \/ Digit(Head(s)) = NaN THEN acc
  ELSE LeadingDigits(Tail(s), acc * 10 + Digit(Head(s)))

\* parseInt(id): the leading digits, NaN when there are none
ParseInt(s) ==
  IF s = <<>> \/ Digit(Head(s)) = NaN THEN NaN ELSE LeadingDigits(s, 0)

RECURSIVE SetMax(_)
SetMax(S) == LET x == CHOOSE y \in S : TRUE
             IN IF S = {x} THEN x
                ELSE LET m == SetMax(S \ {x}) IN IF x > m THEN x ELSE m

Ids(inventory) == {inventory[i].id : i \in 1..Len(inventory)}

\* inventory.findIndex((item) => item.id === n): first match, 0 for -1
FindIndex(inventory, n) ==
  LET hits == {i \in 1..Len(inventory) : inventory[i].id = n}
  IN IF hits = {} THEN 0 ELSE CHOOSE i \in hits : \A j \in hits : i <= j

\* inventory.splice(i): without the count, everything from i on goes
SpliceToEnd(inventory, i) == SubSeq(inventory, 1, i - 1)

\* inventory.splice(i, 1)
Splice(inventory, i) ==
  [j \in 1..(Len(inventory) - 1) |-> IF j < i THEN inventory[j] ELSE inventory[j + 1]]

\* file.mimetype.startsWith("image/")
FileFilter(up) == up.mimetype[1] = "image"

\* `/inventory/${id}/photo`, or null
PhotoUrl(item) ==
  IF item.photo_filename # Null THEN <<"/inventory/", ToString(item.id), "/photo">> ELSE <<>>

\* `\n[Photo: /inventory/${id}/photo]`
PhotoMarker(item) == <<"\n[Photo: /inventory/", ToString(item.id), "/photo]">>

WithPhotoUrl(item) ==
  [id |-> item.id, inventory_name |-> item.inventory_name,
   description |-> item.description, photo_filename |-> item.photo_filename,
   photo_url |-> PhotoUrl(item)]

\* --------------------------------------------------------- Express dispatch
\* app.use / app.METHOD calls in registration order.  "error" marks a
\* four-argument (error-handling) middleware.
Layers == <<"json", "urlencoded", "static", "error", "GET /RegisterForm.html",
            "GET /SearchForm.html", "POST /register", "GET /inventory",
            "GET /inventory/:id", "PUT /inventory/:id", "GET /inventory/:id/photo",
            "PUT /inventory/:id/photo", "DELETE /inventory/:id", "POST /search",
            "405">>

LayerOf(route) == CHOOSE i \in 1..Len(Layers) : Layers[i] = route

\* Express's final handler: err.status is undefined for these errors, so 500
FinalHandler(err) == [status |-> 500, by |-> "finalhandler"]

\* the error middleware: 400 for a MulterError LIMIT_FILE_SIZE, status 0 for
\* next(error)
UploadErrorHandler(err) ==
  IF err.multer /\ err.code = "LIMIT_FILE_SIZE"
  THEN [status |-> 400, by |-> "error"]
  ELSE [status |-> 0, by |-> "error"]

RECURSIVE NextError(_, _)
\* next(err) called in layer `from`: the router goes on through the layers
\* after `from` and calls the error-handling ones; past the last layer the
\* final handler answers.  The status of the response and who sent it.
NextError(err, from) ==
  LET later == {i \in (from + 1)..Len(Layers) : Layers[i] = "error"}
  IN IF later = {} THEN FinalHandler(err)
     ELSE LET i == CHOOSE k \in later : \A j \in later : k <= j
              s == UploadErrorHandler(err)
          IN IF s.status # 0 THEN s ELSE NextError(err, i)

\* upload.single("photo"): "none" (no file part), "stored", or the error
\* passed to next()
Multer(up) ==
  IF ~up.present THEN [result |-> "none", multer |-> FALSE, code |-> ""]
  ELSE IF ~FileFilter(up)
       THEN [result |-> "error", multer |-> FALSE, code |-> "Only images are allowed"]
  ELSE IF up.size > FileSizeLimit
       THEN [result |-> "error", multer |-> TRUE, code |-> "LIMIT_FILE_SIZE"]
  ELSE [result |-> "stored", multer |-> FALSE, code |-> ""]

\* -------------------------------------------------------------- record file
\* inventory.json: absent, text that does not parse, the JSON of an array, or
\* the JSON of a value that is not an array ({}, null, 5, "x")
AbsentFile == [st |-> "absent", recs |-> <<>>]
CorruptFile == [st |-> "corrupt", recs |-> <<>>]
NonArrayFile == [st |-> "nonarray", recs |-> <<>>]

\* JSON.stringify(data, null, 2) written as the whole file
Stringify(data) == [st |-> "ok", recs |-> data]

\* readInventory() returns an array: [] when access or JSON.parse throws,
\* otherwise whatever JSON.parse returns, which is not checked to be an array
ReadsArray(f) == f.st # "nonarray"

\* readInventory(): access or JSON.parse throws -> [].  Where ~ReadsArray(f)
\* the value returned is not an array and the handler's first use of it as
\* one throws (HandlerThrows); the result here is not used in that case.
ReadInventory(f) == IF f.st = "ok" THEN f.recs ELSE <<>>

\* getNextId without the "+ 1"
GetNextIdNoIncrement(f) ==
  LET inventory == ReadInventory(f)
  IN IF Len(inventory) = 0 THEN 1 ELSE SetMax(Ids(inventory))

\* getNextId(), reading the file again
GetNextId(f) ==
  LET inventory == ReadInventory(f)
  IN IF Len(inventory) = 0 THEN 1 ELSE SetMax(Ids(inventory)) + 1

\* What a failed fs.writeFile can leave behind.  writeFile opens the file
\* with flag "w": an error at open (EACCES, EROFS, EMFILE) leaves the file as
\* it was, an error while writing (ENOSPC, EIO) leaves it truncated to a
\* prefix of the new text, which does not parse.
FailedWriteOutcomes(f) == {f, CorruptFile}

\* -------------------------------------------------------------------- state
VARIABLES
  file,      \* inventory.json
  photos,    \* names of the files in the photo directory
  req,       \* per slot: the request in flight
  last,      \* the response sent last, with the request it answers
  uploaded,  \* uploads stored so far (the next file name is uploaded + 1)
  nreq,      \* requests issued so far
  deleted,   \* history: ids whose DELETE was answered 200
  issued,    \* history: the ids of the records Register answered 201 with
  overlap    \* clients issue overlapping requests (FALSE: one at a time)

vars == <<file, photos, req, last, uploaded, nreq, deleted, issued, overlap>>

Idle == [kind |-> "none", pc |-> "idle", id |-> NaN, name |-> <<>>, desc |-> <<>>,
         hasPhoto |-> "undefined", up |-> Null, old |-> Null, inv |-> <<>>,
         idx |-> 0, item |-> <<>>]

\* by: "route" (the route handler), "error" (the error middleware) or
\* "finalhandler" (Express's own)
NoResponse == [kind |-> "none", id |-> NaN, status |-> 0, body |-> <<>>, by |-> "none"]

Init ==
  /\ file = AbsentFile
  /\ photos = {}
  /\ req = [p \in Procs |-> Idle]
  /\ last = NoResponse
  /\ uploaded = 0
  /\ nreq = 0
  /\ deleted = {}
  /\ issued = <<>>
  /\ overlap \in BOOLEAN

\* a client may issue a request on slot p
CanStart(p) ==
  /\ req[p].pc = "idle"
  /\ nreq < MaxReqs
  /\ overlap \/ \A q \in Procs : req[q].pc = "idle"
  \* the slots are interchangeable: a request takes r1 when it is free
  /\ p = "r1" \/ req["r1"].pc # "idle"

\* res.status(status).json(body): the request is over
Response(r, status, body, by) ==
  [kind |-> r.kind, id |-> r.id, status |-> status, body |-> body, by |-> by]

\* JS truthiness of an optional string field
Truthy(opt) == opt # <<>> /\ opt[1] # ""

\* res.status(status).json(body) ends request r of slot p
Answer(p, r, status, body) ==
  /\ last' = Response(r, status, body, "route")
  /\ req' = [req EXCEPT ![p] = Idle]

\* multer called next(err): the route handler is skipped, e answers
AnswerError(p, r, e) ==
  /\ last' = Response(r, e.status, <<>>, e.by)
  /\ req' = [req EXCEPT ![p] = Idle]

\* the handler of slot p suspends at its next await, its locals being r
Await(p, r) ==
  /\ req' = [req EXCEPT ![p] = r]
  /\ UNCHANGED last

\* The outcome of `await writeInventory(inventory)` and the lines after it:
\* the file is overwritten and the handler answers okStatus, or writeFile
\* throws, writeInventory returns false and the handler answers 500.
WriteInventory(p, okStatus, okBody) ==
  \E ok \in BOOLEAN :
    IF ok
    THEN /\ file' = Stringify(req[p].inv)
         /\ Answer(p, req[p], okStatus, okBody)
    ELSE /\ file' \in FailedWriteOutcomes(file)
         /\ Answer(p, req[p], 500, <<>>)

\* upload.single("photo") storing an accepted file under a fresh name
StoreUpload(m) ==
  /\ uploaded' = IF m.result = "stored" THEN uploaded + 1 ELSE uploaded
  /\ photos' = IF m.result = "stored" THEN photos \cup {uploaded + 1} ELSE photos

UploadedName(m) == IF m.result = "stored" THEN uploaded + 1 ELSE Null

\* ---------------------------------------------------------- POST /register
RegisterBegin(p) ==
  /\ CanStart(p)
  /\ \E name \in OptName, desc \in OptDesc, up \in Uploads :
       LET m == Multer(up)
           r == [Idle EXCEPT !.kind = "register", !.name = name, !.up = UploadedName(m),
                             !.desc = IF Truthy(desc) THEN desc ELSE <<<<>>>>]
       IN /\ StoreUpload(m)
          /\ IF m.result = "error"
             THEN AnswerError(p, r, NextError(m, LayerOf("POST /register")))
             ELSE IF ~Truthy(name) THEN Answer(p, r, 400, <<>>)
             ELSE Await(p, [r EXCEPT !.pc = "reg_read"])
  /\ nreq' = nreq + 1
  /\ UNCHANGED <<file, deleted, issued, overlap>>

RegisterRead(p) ==
  /\ req[p].pc = "reg_read"
  /\ Await(p, [req[p] EXCEPT !.inv = ReadInventory(file), !.pc = "reg_nextid"])
  /\ UNCHANGED <<file, photos, uploaded, nreq, deleted, issued, overlap>>

NewItem(r, id) ==
  [id |-> id, inventory_name |-> r.name[1], description |-> r.desc[1],
   photo_filename |-> r.up]

\* the array replaced by the new item instead of the item being pushed
RegisterNextIdReplace(p) ==
  /\ req[p].pc = "reg_nextid"
  /\ ReadsArray(file)
  /\ Await(p, [req[p] EXCEPT !.inv = <<NewItem(req[p], GetNextId(file))>>,
                             !.idx = 1,
                             !.pc = "reg_write"])
  /\ UNCHANGED <<file, photos, uploaded, nreq, deleted, issued, overlap>>

RegisterNextId(p) ==
  /\ req[p].pc = "reg_nextid"
  /\ ReadsArray(file)
  /\ Await(p, [req[p] EXCEPT !.inv = Append(@, NewItem(req[p], GetNextId(file))),
                             !.idx = Len(req[p].inv) + 1,
                             !.pc = "reg_write"])
  /\ UNCHANGED <<file, photos, uploaded, nreq, deleted, issued, overlap>>

RegisterWrite(p) ==
  /\ req[p].pc = "reg_write"
  /\ WriteInventory(p, 201, <<req[p].inv[req[p].idx]>>)
  /\ issued' = IF last'.status = 201 THEN Append(issued, last'.body[1].id) ELSE issued
  /\ UNCHANGED <<photos, uploaded, nreq, deleted, overlap>>

\* ------------------------------------------------------ PUT /inventory/:id
\* the update guarded by truthiness (`if (inventory_name)`) instead of
\* `!== undefined`
ApplyUpdateTruthy(item, name, desc) ==
  [item EXCEPT !.inventory_name = IF name # <<>> /\ name[1] # "" THEN name[1] ELSE @,
               !.description = IF desc # <<>> /\ desc[1] # <<>> THEN desc[1] ELSE @]

\* the record rebuilt from the body's fields, its photo_filename not copied
ApplyUpdateDropsPhoto(item, name, desc) ==
  [id |-> item.id,
   inventory_name |-> IF name # <<>> THEN name[1] ELSE item.inventory_name,
   description |-> IF desc # <<>> THEN desc[1] ELSE item.description,
   photo_filename |-> Null]

\* lines 172-177: a field of the body that is not undefined overwrites
ApplyUpdate(item, name, desc) ==
  [item EXCEPT !.inventory_name = IF name # <<>> THEN name[1] ELSE @,
               !.description = IF desc # <<>> THEN desc[1] ELSE @]

UpdateBegin(p) ==
  /\ CanStart(p)
  /\ \E ids \in IdStrings, name \in OptName, desc \in OptDesc :
       Await(p, [Idle EXCEPT !.kind = "update", !.pc = "upd_read",
                             !.id = ParseInt(ids), !.name = name, !.desc = desc])
  /\ nreq' = nreq + 1
  /\ UNCHANGED <<file, photos, uploaded, deleted, issued, overlap>>

UpdateRead(p) ==
  /\ req[p].pc = "upd_read"
  /\ ReadsArray(file)
  /\ LET inventory == ReadInventory(file)
         itemIndex == FindIndex(inventory, req[p].id)
     IN IF itemIndex = 0 THEN Answer(p, req[p], 404, <<>>)
        ELSE Await(p, [req[p] EXCEPT
                         !.inv = [inventory EXCEPT ![itemIndex] =
                                    ApplyUpdate(@, req[p].name, req[p].desc)],
                         !.idx = itemIndex, !.pc = "upd_write"])
  /\ UNCHANGED <<file, photos, uploaded, nreq, deleted, issued, overlap>>

UpdateWrite(p) ==
  /\ req[p].pc = "upd_write"
  /\ WriteInventory(p, 200, <<req[p].inv[req[p].idx]>>)
  /\ UNCHANGED <<photos, uploaded, nreq, deleted, issued, overlap>>

\* ------------------------------------------------ PUT /inventory/:id/photo
PhotoBegin(p) ==
  /\ CanStart(p)
  /\ \E ids \in IdStrings, up \in Uploads :
       LET m == Multer(up)
           r == [Idle EXCEPT !.kind = "photo", !.id = ParseInt(ids),
                             !.up = UploadedName(m)]
       IN /\ StoreUpload(m)
          /\ IF m.result = "error"
             THEN AnswerError(p, r, NextError(m, LayerOf("PUT /inventory/:id/photo")))
             ELSE IF m.result = "none" THEN Answer(p, r, 400, <<>>)
             ELSE Await(p, [r EXCEPT !.pc = "pho_read"])
  /\ nreq' = nreq + 1
  /\ UNCHANGED <<file, deleted, issued, overlap>>

\* inventory[itemIndex].photo_filename = req.file.filename
SetPhoto(inventory, itemIndex, filename) ==
  [inventory EXCEPT ![itemIndex].photo_filename = filename]

PhotoRead(p) ==
  /\ req[p].pc = "pho_read"
  /\ ReadsArray(file)
  /\ LET inventory == ReadInventory(file)
         itemIndex == FindIndex(inventory, req[p].id)
     IN IF itemIndex = 0 THEN Answer(p, req[p], 404, <<>>)
        ELSE IF inventory[itemIndex].photo_filename # Null
        THEN Await(p, [req[p] EXCEPT !.inv = inventory, !.idx = itemIndex,
                                     !.old = inventory[itemIndex].photo_filename,
                                     !.pc = "pho_unlink"])
        ELSE Await(p, [req[p] EXCEPT !.inv = SetPhoto(inventory, itemIndex, req[p].up),
                                     !.idx = itemIndex, !.pc = "pho_write"])
  /\ UNCHANGED <<file, photos, uploaded, nreq, deleted, issued, overlap>>

\* the old file left in place
UnlinkSkipped(dir, filename) == dir

\* try { await fs.access(path); await fs.unlink(path); } catch {}
Unlink(dir, filename) == dir \ {filename}

PhotoUnlink(p) ==
  /\ req[p].pc = "pho_unlink"
  /\ photos' = Unlink(photos, req[p].old)
  /\ Await(p, [req[p] EXCEPT !.inv = SetPhoto(@, req[p].idx, req[p].up),
                             !.pc = "pho_write"])
  /\ UNCHANGED <<file, uploaded, nreq, deleted, issued, overlap>>

PhotoWrite(p) ==
  /\ req[p].pc = "pho_write"
  /\ WriteInventory(p, 200, <<req[p].inv[req[p].idx]>>)
  /\ UNCHANGED <<photos, uploaded, nreq, deleted, issued, overlap>>

\* --------------------------------------------------- DELETE /inventory/:id
DeleteBegin(p) ==
  /\ CanStart(p)
  /\ \E ids \in IdStrings :
       Await(p, [Idle EXCEPT !.kind = "delete", !.pc = "del_read", !.id = ParseInt(ids)])
  /\ nreq' = nreq + 1
  /\ UNCHANGED <<file, photos, uploaded, deleted, issued, overlap>>

DeleteRead(p) ==
  /\ req[p].pc = "del_read"
  /\ ReadsArray(file)
  /\ LET inventory == ReadInventory(file)
         itemIndex == FindIndex(inventory, req[p].id)
     IN IF itemIndex = 0 THEN Answer(p, req[p], 404, <<>>)
        ELSE IF inventory[itemIndex].photo_filename # Null
        THEN Await(p, [req[p] EXCEPT !.inv = inventory, !.idx = itemIndex,
                                     !.item = <<inventory[itemIndex]>>,
                                     !.old = inventory[itemIndex].photo_filename,
                                     !.pc = "del_unlink"])
        ELSE Await(p, [req[p] EXCEPT !.inv = Splice(inventory, itemIndex),
                                     !.idx = itemIndex,
                                     !.item = <<inventory[itemIndex]>>,
                                     !.pc = "del_write"])
  /\ UNCHANGED <<file, photos, uploaded, nreq, deleted, issued, overlap>>

DeleteUnlink(p) ==
  /\ req[p].pc = "del_unlink"
  /\ photos' = Unlink(photos, req[p].old)
  /\ Await(p, [req[p] EXCEPT !.inv = Splice(@, req[p].idx), !.pc = "del_write"])
  /\ UNCHANGED <<file, uploaded, nreq, deleted, issued, overlap>>

DeleteWrite(p) ==
  /\ req[p].pc = "del_write"
  /\ WriteInventory(p, 200, req[p].item)
  /\ deleted' = IF last'.status = 200 THEN deleted \cup {req[p].id} ELSE deleted
  /\ UNCHANGED <<photos, uploaded, nreq, issued, overlap>>

\* ------------------------------------------------------- GET /inventory
ListBegin(p) ==
  /\ CanStart(p)
  /\ Await(p, [Idle EXCEPT !.kind = "list", !.pc = "list_read"])
  /\ nreq' = nreq + 1
  /\ UNCHANGED <<file, photos, uploaded, deleted, issued, overlap>>

ListRead(p) ==
  /\ req[p].pc = "list_read"
  /\ ReadsArray(file)
  /\ LET inventory == ReadInventory(file)
     IN Answer(p, req[p], 200, [i \in 1..Len(inventory) |-> WithPhotoUrl(inventory[i])])
  /\ UNCHANGED <<file, photos, uploaded, nreq, deleted, issued, overlap>>

\* --------------------------------------------------- GET /inventory/:id
GetOneStatus(f, n) == IF FindIndex(ReadInventory(f), n) = 0 THEN 404 ELSE 200

GetOneBody(f, n) ==
  LET inventory == ReadInventory(f)
      i == FindIndex(inventory, n)
  IN IF i = 0 THEN <<>> ELSE <<WithPhotoUrl(inventory[i])>>

GetOneBegin(p) ==
  /\ CanStart(p)
  /\ \E ids \in IdStrings :
       Await(p, [Idle EXCEPT !.kind = "get", !.pc = "get_read", !.id = ParseInt(ids)])
  /\ nreq' = nreq + 1
  /\ UNCHANGED <<file, photos, uploaded, deleted, issued, overlap>>

GetOneRead(p) ==
  /\ req[p].pc = "get_read"
  /\ ReadsArray(file)
  /\ Answer(p, req[p], GetOneStatus(file, req[p].id), GetOneBody(file, req[p].id))
  /\ UNCHANGED <<file, photos, uploaded, nreq, deleted, issued, overlap>>

\* ---------------------------------------------- GET /inventory/:id/photo
GetPhotoBegin(p) ==
  /\ CanStart(p)
  /\ \E ids \in IdStrings :
       Await(p, [Idle EXCEPT !.kind = "getphoto", !.pc = "gp_read", !.id = ParseInt(ids)])
  /\ nreq' = nreq + 1
  /\ UNCHANGED <<file, photos, uploaded, deleted, issued, overlap>>

GetPhotoRead(p) ==
  /\ req[p].pc = "gp_read"
  /\ ReadsArray(file)
  /\ LET inventory == ReadInventory(file)
         i == FindIndex(inventory, req[p].id)
     IN IF i = 0 \/ inventory[i].photo_filename = Null
        THEN Answer(p, req[p], 404, <<>>)
        ELSE Await(p, [req[p] EXCEPT !.old = inventory[i].photo_filename,
                                     !.pc = "gp_access"])
  /\ UNCHANGED <<file, photos, uploaded, nreq, deleted, issued, overlap>>

\* await fs.access(photoPath); res.sendFile(photoPath): the body is the file served
GetPhotoAccess(p) ==
  /\ req[p].pc = "gp_access"
  /\ IF req[p].old \in photos THEN Answer(p, req[p], 200, <<req[p].old>>)
     ELSE Answer(p, req[p], 404, <<>>)
  /\ UNCHANGED <<file, photos, uploaded, nreq, deleted, issued, overlap>>

\* ------------------------------------------------------------ POST /search
\* the marker appended whenever the record has a photo, whatever has_photo is
SearchResultAnyFlag(item, hasPhoto) ==
  LET result == IF item.photo_filename # Null
                THEN [item EXCEPT !.description = @ \o PhotoMarker(item)]
                ELSE item
  IN [id |-> result.id, inventory_name |-> result.inventory_name,
      description |-> result.description, photo_filename |-> result.photo_filename,
      photo_url |-> PhotoUrl(item)]

\* the response item: a copy, the marker appended for has_photo === "true"
SearchResult(item, hasPhoto) ==
  LET result == IF hasPhoto = "true" /\ item.photo_filename # Null
                THEN [item EXCEPT !.description = @ \o PhotoMarker(item)]
                ELSE item
  IN [id |-> result.id, inventory_name |-> result.inventory_name,
      description |-> result.description, photo_filename |-> result.photo_filename,
      photo_url |-> PhotoUrl(item)]

SearchBegin(p) ==
  /\ CanStart(p)
  /\ \E sid \in SearchIds, hp \in HasPhotoInputs :
       LET r == [Idle EXCEPT !.kind = "search", !.hasPhoto = hp,
                             !.id = IF sid = <<>> THEN NaN ELSE ParseInt(sid[1])]
       IN IF sid = <<>> \/ sid[1] = <<>> THEN Answer(p, r, 400, <<>>)
          ELSE Await(p, [r EXCEPT !.pc = "sea_read"])
  /\ nreq' = nreq + 1
  /\ UNCHANGED <<file, photos, uploaded, deleted, issued, overlap>>

SearchRead(p) ==
  /\ req[p].pc = "sea_read"
  /\ ReadsArray(file)
  /\ LET inventory == ReadInventory(file)
         i == FindIndex(inventory, req[p].id)
     IN IF i = 0 THEN Answer(p, req[p], 404, <<>>)
        ELSE Answer(p, req[p], 200, <<SearchResult(inventory[i], req[p].hasPhoto)>>)
  /\ UNCHANGED <<file, photos, uploaded, nreq, deleted, issued, overlap>>

\* -------------------------------------------------------------------- Next
Next ==
  \E p \in Procs :
    \/ RegisterBegin(p) \/ RegisterRead(p) \/ RegisterNextId(p) \/ RegisterWrite(p)
    \/ UpdateBegin(p) \/ UpdateRead(p) \/ UpdateWrite(p)
    \/ PhotoBegin(p) \/ PhotoRead(p) \/ PhotoUnlink(p) \/ PhotoWrite(p)
    \/ DeleteBegin(p) \/ DeleteRead(p) \/ DeleteUnlink(p) \/ DeleteWrite(p)
    \/ ListBegin(p) \/ ListRead(p)
    \/ GetOneBegin(p) \/ GetOneRead(p)
    \/ GetPhotoBegin(p) \/ GetPhotoRead(p) \/ GetPhotoAccess(p)
    \/ SearchBegin(p) \/ SearchRead(p)

Spec == Init /\ [][Next]_vars

\* requests handled one at a time
InitSerial == Init /\ ~overlap

SerialSpec == InitSerial /\ [][Next]_vars

\* ------------------------------------------- a record file left by others
\* the route that handles a request of this kind
Route(kind) ==
  CASE kind = "register" -> "POST /register"
    [] kind = "update"   -> "PUT /inventory/:id"
    [] kind = "photo"    -> "PUT /inventory/:id/photo"
    [] kind = "delete"   -> "DELETE /inventory/:id"
    [] kind = "list"     -> "GET /inventory"
    [] kind = "get"      -> "GET /inventory/:id"
    [] kind = "getphoto" -> "GET /inventory/:id/photo"
    [] OTHER             -> "POST /search"

\* where a handler first uses the result of readInventory() as an array:
\* inventory.map, inventory.find, inventory.findIndex, and in getNextId
\* inventory.map or, after it, inventory.push
UsesInventory ==
  {"reg_nextid", "upd_read", "pho_read", "del_read", "list_read", "get_read",
   "gp_read", "sea_read"}

\* What becomes of the promise an async handler returns when it rejects.
\* The Express release is not fixed by the source: Express 4 ignores the
\* promise, so nothing answers the request ("unanswered"); Express 5 passes
\* the error to next() ("forwarded").
RejectionOutcomes == {"unanswered", "forwarded"}

\* the TypeError of `inventory.map is not a function` and the like
TypeError == [result |-> "error", multer |-> FALSE, code |-> "TypeError"]

\* the handler of slot p throws on a value that is not an array
HandlerThrows(p) ==
  /\ req[p].pc \in UsesInventory
  /\ ~ReadsArray(file)
  /\ \E o \in RejectionOutcomes :
       IF o = "forwarded"
       THEN AnswerError(p, req[p], NextError(TypeError, LayerOf(Route(req[p].kind))))
       ELSE Await(p, [req[p] EXCEPT !.pc = "unanswered"])
  /\ UNCHANGED <<file, photos, uploaded, nreq, deleted, issued, overlap>>

\* a record that was saved by an earlier run of the server
StoredItem == [id |-> 1, inventory_name |-> "a", description |-> <<>>, photo_filename |-> Null]

\* what the server can find in inventory.json when it starts
FilesAtStart ==
  {AbsentFile, CorruptFile, NonArrayFile, Stringify(<<>>), Stringify(<<StoredItem>>)}

InitAnyFile ==
  /\ file \in FilesAtStart
  /\ photos = {}
  /\ req = [p \in Procs |-> Idle]
  /\ last = NoResponse
  /\ uploaded = 0
  /\ nreq = 0
  /\ deleted = {}
  /\ issued = <<>>
  /\ overlap = FALSE

NextAnyFile == Next \/ \E p \in Procs : HandlerThrows(p)

AnyFileSpec == InitAnyFile /\ [][NextAnyFile]_vars

\* ================================================================== claims
Persisted == ReadInventory(file)

UniqueIds(inventory) ==
  \A i, j \in 1..Len(inventory) : i # j => inventory[i].id # inventory[j].id

\* slot p's handler answers in this step, from program point pc
Answers(p, pc) == req[p].pc = pc /\ req'[p].pc = "idle"

C2_IdNeverReused ==
  [][\A p \in Procs :
       Answers(p, "reg_write") /\ last'.status = 201 => last'.body[1].id \notin deleted]_vars

\* the collection a Register loaded: its array without the pushed item
Loaded(p) == SubSeq(req[p].inv, 1, req[p].idx - 1)

\* C3 as stated: a Register answered 201 wrote the collection it loaded plus
\* exactly one record, whose id is 1 if that collection is empty and
\* max(its ids) + 1 otherwise, with description defaulting to "" and
\* photo_filename null when no photo was uploaded.
C3_RegisterAppendsNextId ==
  [][\A p \in Procs :
       Answers(p, "reg_write") /\ last'.status = 201 =>
         LET item == last'.body[1]
         IN /\ file'.st = "ok"
            /\ file'.recs = Append(Loaded(p), item)
            /\ item.id = IF Loaded(p) = <<>> THEN 1 ELSE SetMax(Ids(Loaded(p))) + 1
            /\ item.inventory_name = req[p].name[1]
            /\ item.description = req[p].desc[1]
            /\ item.photo_filename = req[p].up]_vars

\* C4 as stated: an upload rejected by the upload layer on POST /register or
\* PUT /inventory/:id/photo is answered 400 by the upload error handler (the
\* route handler not having run).
C4_RejectedUploadIs400 ==
  last.kind \in {"register", "photo"} /\ last.by # "route" =>
    last.status = 400 /\ last.by = "error"

\* C5 as stated: when the save fails in Register, Update, Replace photo or
\* Delete, the answer is 500 and the persisted collection is the one from
\* before.
C5_FailedSaveKeepsFile ==
  [][\A p \in Procs :
       /\ \E pc \in {"reg_write", "upd_write", "pho_write", "del_write"} : Answers(p, pc)
       /\ last'.status # 201 /\ last'.status # 200
       => last'.status = 500 /\ ReadInventory(file') = ReadInventory(file)]_vars

\* C6 as stated: a request answered 400 by its handler's validation has
\* touched neither the record file nor the photo directory.
C6_ValidationTouchesNoStore ==
  [][\A p \in Procs :
       req[p].pc = "idle" /\ req'[p].pc = "idle" /\ nreq' = nreq + 1
       /\ last'.status = 400 /\ last'.by = "route"
       => file' = file /\ photos' = photos]_vars

\* the records of inventory other than those with id n, in order
Others(inventory, n) == SelectSeq(inventory, LAMBDA item : item.id # n)

\* C7: requests being handled one at a time, an Update of X answered 200
\* overwrites inventory_name iff the body has it and description iff the body
\* has it (an empty string overwrites), keeps X's id and photo_filename and
\* every other record, and keeps the whole record when the body has neither.
C7_UpdateOverwritesPresentFields ==
  [][\A p \in Procs :
       Answers(p, "upd_write") /\ last'.status = 200 =>
         LET old == ReadInventory(file)
             new == ReadInventory(file')
             i == FindIndex(old, req[p].id)
         IN /\ i # 0 /\ Len(new) = Len(old)
            /\ \A j \in 1..Len(old) : j # i => new[j] = old[j]
            /\ new[i].id = old[i].id
            /\ new[i].photo_filename = old[i].photo_filename
            /\ new[i].inventory_name =
                 IF req[p].name = <<>> THEN old[i].inventory_name ELSE req[p].name[1]
            /\ new[i].description =
                 IF req[p].desc = <<>> THEN old[i].description ELSE req[p].desc[1]
            /\ (req[p].name = <<>> /\ req[p].desc = <<>> => new = old)
            /\ last'.body = <<new[i]>>]_vars

\* an Update answered 200 after an empty inventory_name overwrote the name
\* given at registration, a second record being stored
C7_Witness ==
  /\ ~overlap /\ last.kind = "update" /\ last.status = 200
  /\ last.body[1].inventory_name = "" /\ Len(Persisted) = 2

\* C8: requests being handled one at a time, a Delete of X answered 200
\* returns the deleted record, leaves no record with id X (Get one for X is
\* then 404) and not the photo file it referenced, and keeps all other
\* records; a Delete of an id that matches no record is answered 404 and
\* changes neither the file nor the photo directory.
C8_DeleteRemovesRecordAndPhoto ==
  [][\A p \in Procs :
       /\ Answers(p, "del_write") /\ last'.status = 200 =>
            LET old == ReadInventory(file)
                new == ReadInventory(file')
                X == req[p].id
            IN /\ last'.body = <<old[FindIndex(old, X)]>>
               /\ last'.body[1].id = X
               /\ X \notin Ids(new)
               /\ GetOneStatus(file', X) = 404
               /\ last'.body[1].photo_filename \notin photos'
               /\ new = Others(old, X)
               /\ Len(new) = Len(old) - 1
       /\ req[p].pc = "del_read" /\ req[p].id \notin Ids(ReadInventory(file)) =>
            /\ req'[p].pc = "idle" /\ last'.status = 404
            /\ file' = file /\ photos' = photos
       /\ Answers(p, "del_read") => req[p].id \notin Ids(ReadInventory(file))]_vars

\* a Delete answered 200 for a record with a photo, another record remaining
C8_Witness ==
  /\ ~overlap /\ last.kind = "delete" /\ last.status = 200
  /\ last.body[1].photo_filename # Null
  /\ Len(Persisted) = 1

\* C9: when a Replace photo on a record that had a photo is answered 200, the
\* old photo file is not in the photo directory, the record's photo_filename
\* is the uploaded file's name and that file is in the directory (Get photo
\* serves it), and no persisted record references the old name.
C9_ReplacePhotoDropsOld ==
  [][\A p \in Procs :
       Answers(p, "pho_write") /\ last'.status = 200 /\ req[p].old # Null =>
         LET new == ReadInventory(file')
             i == FindIndex(new, req[p].id)
         IN /\ req[p].old \notin photos'
            /\ i # 0
            /\ new[i].photo_filename = req[p].up
            /\ req[p].up # req[p].old
            /\ req[p].up \in photos'
            /\ \A j \in 1..Len(new) : new[j].photo_filename # req[p].old]_vars

\* a Replace photo answered 200 on the record registered with photo 1
C9_Witness ==
  /\ last.kind = "photo" /\ last.status = 200
  /\ nreq = 2 /\ uploaded = 2 /\ photos = {2}
  /\ last.body[1].photo_filename = 2

\* C10: Search changes neither the file nor the photo directory; its 200
\* response carries the persisted description followed by the marker when
\* has_photo is "true" and the record has a photo, and the persisted
\* description otherwise; Get one for the same id then shows the persisted
\* description.
C10_SearchLeavesPersistedState ==
  [][\A p \in Procs :
       /\ (req[p].kind = "search" \/ req'[p].kind = "search") /\ req'[p] # req[p] =>
            file' = file /\ photos' = photos
       /\ Answers(p, "sea_read") /\ last'.status = 200 =>
            LET inventory == ReadInventory(file)
                item == inventory[FindIndex(inventory, req[p].id)]
            IN /\ last'.body[1].description =
                    IF req[p].hasPhoto = "true" /\ item.photo_filename # Null
                    THEN item.description \o PhotoMarker(item)
                    ELSE item.description
               /\ GetOneStatus(file', req[p].id) = 200
               /\ GetOneBody(file', req[p].id)[1].description = item.description]_vars

\* a Search answered 200 with the marker appended, the persisted description
\* being without it
C10_Witness ==
  /\ last.kind = "search" /\ last.status = 200
  /\ FindIndex(Persisted, last.id) # 0
  /\ last.body[1].description =
       Persisted[FindIndex(Persisted, last.id)].description \o PhotoMarker(last.body[1])

\* slot p's save succeeds in this step and its handler acknowledges the change
Saves(p) ==
  /\ \E pc \in {"reg_write", "upd_write", "pho_write", "del_write"} : Answers(p, pc)
  /\ last'.status \in {200, 201}

\* the save of p removes a persisted record that p's request does not delete
LosesRecord(p) ==
  \E X \in Ids(ReadInventory(file)) :
    /\ X \notin Ids(ReadInventory(file'))
    /\ ~(req[p].kind = "delete" /\ X = req[p].id)

\* the save of p brings back an id that is not persisted and that p's request
\* does not register
RestoresRecord(p) ==
  \E X \in Ids(ReadInventory(file')) :
    /\ X \notin Ids(ReadInventory(file))
    /\ ~(req[p].kind = "register" /\ X = last'.body[1].id)

\* the Register of p is acknowledged with an id a persisted record holds
AssignsHeldId(p) ==
  req[p].kind = "register" /\ last'.body[1].id \in Ids(ReadInventory(file))

\* C11: a save writes the handler's own copy whatever the file holds by then,
\* so an acknowledged save can drop another request's record, bring a deleted
\* record back, or give a Register an id that is taken; each happens for some
\* interleaving of overlapping requests (C11_Witness, C11_DeletedReappears)
\* and none happens when requests are handled one at a time.
C11_AnomaliesNeedOverlap ==
  [][\A p \in Procs :
       Saves(p) /\ (LosesRecord(p) \/ RestoresRecord(p) \/ AssignsHeldId(p)) => overlap]_vars

\* two overlapping registrations, both answered 201 with id 1, one of the two
\* records persisted
C11_Witness ==
  /\ overlap /\ nreq = 2 /\ issued = <<1, 1>> /\ deleted = {}
  /\ last.kind = "register" /\ last.status = 201
  /\ Len(Persisted) = 1

\* a record deleted with a 200 is persisted again after an overlapping
\* Update's save (three requests: Register, Delete, Update)
C11_DeletedReappears ==
  /\ overlap /\ nreq = 3 /\ issued = <<1>> /\ deleted = {1}
  /\ last.kind = "update" /\ last.status = 200
  /\ 1 \in Ids(Persisted)

\* the record with id n of inventory has a photo_filename
HasPhoto(inventory, n) ==
  FindIndex(inventory, n) # 0 /\ inventory[FindIndex(inventory, n)].photo_filename # Null

\* a step of an Update or Replace photo save, no Register or Delete being in
\* flight, keeps a photo_filename on every record that has one and stays
PhotoKeptByStep ==
  \A p \in Procs :
    /\ Answers(p, "upd_write") \/ Answers(p, "pho_write")
    /\ \A q \in Procs : req[q].kind \notin {"register", "delete"}
    => \A X \in Ids(ReadInventory(file)) \cap Ids(ReadInventory(file')) :
         HasPhoto(ReadInventory(file), X) => HasPhoto(ReadInventory(file'), X)

\* C12 as stated: for any sequence or interleaving of Update, Replace photo,
\* Search and read requests, a persisted record that has a photo_filename
\* has one in every later persisted state in which it exists.
C12_PhotoNeverClearedAnyInterleaving == [][PhotoKeptByStep]_vars

\* C12 amended: the same when requests are handled one at a time.
C12_PhotoNeverClearedOneAtATime == [][~overlap => PhotoKeptByStep]_vars

\* an Update answered 200, one at a time, on a record that keeps its photo
C12_Witness ==
  /\ ~overlap /\ last.kind = "update" /\ last.status = 200
  /\ last.body[1].photo_filename # Null
  /\ HasPhoto(Persisted, last.body[1].id)

\* C13: every request receives exactly one response whatever the record file
\* contains: readInventory yields an array for every file state, a handler
\* that has read the file goes on to answer from its own code and never
\* leaves the request unanswered, and on an absent or unusable file List
\* answers 200 with [] and Get one answers 404.
C13_EveryRequestAnswered ==
  [][\A p \in Procs :
       req[p].pc \in UsesInventory /\ req'[p] # req[p] =>
         /\ ReadsArray(file)
         /\ req'[p].pc # "unanswered"
         /\ req'[p].pc = "idle" => last'.by = "route"
         /\ file.st # "ok" /\ req[p].pc = "list_read" =>
              last'.status = 200 /\ last'.body = <<>>
         /\ file.st # "ok" /\ req[p].pc = "get_read" => last'.status = 404]_vars

\* C14: when Delete or Replace photo on a record that has a photo is answered
\* 500 because the save failed, the record is still persisted with its
\* previous photo_filename and the photo file it names is still in the photo
\* directory (so that Get photo for the record answers 200).
C14_FailedSaveKeepsPhoto ==
  [][\A p \in Procs :
       /\ Answers(p, "del_write") \/ Answers(p, "pho_write")
       /\ last'.status = 500
       /\ req[p].old # Null
       => /\ req[p].old \in photos'
          /\ LET inventory == ReadInventory(file')
                 itemIndex == FindIndex(inventory, req[p].id)
             IN itemIndex # 0 /\ inventory[itemIndex].photo_filename = req[p].old]_vars
====
